---- MODULE Spec2Model ----
(***************************************************************************)
(* Steering behaviours of src/main.cpp: the vector helpers, the single-    *)
(* agent and multi-agent steering functions, the two force combiners and   *)
(* the per-frame simulation step of main().                                *)
(*                                                                         *)
(* Numbers.  Every float of the program is a fixed-point integer counting  *)
(* 1/U of a unit (a position of 500 px is 500*U, a force of 0.12 is        *)
(* 12*U/100).  sqrtf is the integer square root (rounded down), a float    *)
(* product or quotient is computed exactly and then rounded toward zero    *)
(* to the grid, symmetrically in the sign.  A float literal that is not    *)
(* on the grid (0.001f, 0.0001f, 0.01f) is compared as the ratio it is.    *)
(***************************************************************************)
EXTENDS Integers, Sequences, FiniteSets, TLC

\* Fixed-point resolution: grid steps per unit.
U == 100

\* ------------------------------------------------------------------------
\* Scalar arithmetic on the grid
\* ------------------------------------------------------------------------
\* The(S) is the element of the one-element set S.  In { e : x \in {d} }
\* the value of d is computed once and x stands for it throughout e, as a
\* C++ local does for its initialiser.
The(S) == CHOOSE r \in S : TRUE

Abs(a) == IF a < 0 THEN -a ELSE a
Max2(a, b) == IF a >= b THEN a ELSE b

\* a / b rounded toward zero (b > 0): float division is sign-symmetric.
Div(a, b) == IF a >= 0 THEN a \div b ELSE -((-a) \div b)

\* C++ int remainder a % n (n > 0): the sign follows the dividend.
CRem(a, n) == IF a >= 0 THEN a % n ELSE -((-a) % n)

RECURSIVE SqrtIter(_, _)
SqrtIter(n, g) ==
    The({ IF h >= g THEN g ELSE SqrtIter(n, h) : h \in {(g + n \div g) \div 2} })

\* sqrtf on the grid: the largest r with r*r <= n.
ISqrt(n) ==
    The({ IF m < 2 THEN m ELSE SqrtIter(m, IF m > 46340 THEN 46340 ELSE m) : m \in {n} })

\* ------------------------------------------------------------------------
\* Basic vector helpers (main.cpp 7-20)
\* ------------------------------------------------------------------------
Vec(px, py) == [x |-> px, y |-> py]
Zero == Vec(0, 0)

\* Components above LenExact are measured at a coarser step, as a float
\* keeps a relative and not an absolute precision.
LenExact == 300 * U

Length(v) ==
    LET m == Max2(Abs(v.x), Abs(v.y))
    IN IF m <= LenExact
       THEN ISqrt(v.x * v.x + v.y * v.y)
       ELSE LET k  == (m \div LenExact) + 1
                sx == Div(v.x, k)
                sy == Div(v.y, k)
            IN k * ISqrt(sx * sx + sy * sy)

\* Scale(v, n/d): v times the float n/d.
ScaleQ(v, n, d) == Vec(Div(v.x * n, d), Div(v.y * n, d))

\* Scale(v, s) for a float s held on the grid.
Scale(v, s) == ScaleQ(v, s, U)

Add(a, b) == Vec(a.x + b.x, a.y + b.y)
Sub(a, b) == Vec(a.x - b.x, a.y - b.y)

\* The result is a unit vector on the grid: components in -U..U.
Normalize(v) ==
    LET l == Length(v)
    IN IF l = 0 THEN Zero ELSE ScaleQ(v, U, l)

Limit(v, max) ==
    LET l == Length(v)
    IN IF l > max THEN ScaleQ(v, max, l) ELSE v

\* ------------------------------------------------------------------------
\* Single-agent behaviours (main.cpp 27-75)
\* ------------------------------------------------------------------------
Seek(pos, target, maxSpeed) == Scale(Normalize(Sub(target, pos)), maxSpeed)

Flee(pos, target, maxSpeed) == Scale(Normalize(Sub(pos, target)), maxSpeed)

\* T = dist / (maxSpeed + 0.0001f) * predictionFactor, predictionFactor on
\* the grid; 0.0001f is below the grid and only keeps the divisor nonzero.
PredictT(pos, targetPos, maxSpeed, predictionFactor) ==
    LET dist == Length(Sub(targetPos, pos))
    IN Div(Div(dist * U, Max2(maxSpeed, 1)) * predictionFactor, U)

Pursue(pos, targetPos, targetVel, maxSpeed, predictionFactor) ==
    LET T == PredictT(pos, targetPos, maxSpeed, predictionFactor)
    IN Seek(pos, Add(targetPos, Scale(targetVel, T)), maxSpeed)

Evade(pos, targetPos, targetVel, maxSpeed, predictionFactor) ==
    LET T == PredictT(pos, targetPos, maxSpeed, predictionFactor)
    IN Flee(pos, Add(targetPos, Scale(targetVel, T)), maxSpeed)

Arrive(pos, target, maxSpeed, slowingRadius) ==
    LET desired == Sub(target, pos)
        dist    == Length(desired)
        raw     == Div(maxSpeed * dist, slowingRadius)
        speed   == IF raw > maxSpeed THEN maxSpeed ELSE raw
    IN IF dist * 1000 < U THEN Zero ELSE Scale(Normalize(desired), speed)

\* cosf and sinf at k half-radians, in 1/10000 (k in 0..6; the functions
\* are even and odd).
CosTab == <<10000, 8776, 5403, 707, -4161, -8011, -9900>>
SinTab == <<0, 4794, 8415, 9975, 9093, 5985, 1411>>
CosH(k) == CosTab[Abs(k) + 1]
SinH(k) == IF k >= 0 THEN SinTab[k + 1] ELSE -SinTab[(-k) + 1]

\* wanderAngle counts half-radians: GetRandomValue(-100,100)/100*0.5 is a
\* whole number of them for the draws -100, 0 and 100.  angle is the value
\* of wanderAngle after the += of line 70.
Wander(position, velocity, maxSpeed, angle) ==
    LET n            == Normalize(velocity)
        dir          == IF Length(n) * 100 < U THEN Vec(0, -U) ELSE n
        circleCenter == Scale(dir, 50 * U)
        displacement == Vec(Div(CosH(angle) * 30 * U, 10000),
                            Div(SinH(angle) * 30 * U, 10000))
    IN Limit(Add(circleCenter, displacement), maxSpeed)

\* ------------------------------------------------------------------------
\* Multi-agent steering functions (main.cpp 78-176)
\* ------------------------------------------------------------------------
\* struct Agent without acc (always {0,0}) and color (display only).
Agent(p, v, ms, mf, pi) ==
    [pos |-> p, vel |-> v, maxSpeed |-> ms, maxForce |-> mf, pathIndex |-> pi]

\* maxAvoidForce * (0.4f + 0.6f * strength), strength = (24 - dist) / 24.
AvoidMagnitude(dist, maxAvoidForce) ==
    LET combinedRadius == 24 * U
    IN Div(maxAvoidForce * (4 * combinedRadius + 6 * (combinedRadius - dist)),
           10 * combinedRadius)

\* Variant: the push fades to nothing at the combined radius (no 0.4 floor).
PredictiveAvoidanceNoFloor(a, b, lookAheadTime, maxAvoidForce) ==
    LET futureA == Add(a.pos, Scale(a.vel, lookAheadTime))
        futureB == Add(b.pos, Scale(b.vel, lookAheadTime))
        diff    == Sub(futureA, futureB)
        dist    == Length(diff)
        combinedRadius == 24 * U
    IN IF dist < combinedRadius /\ dist * 1000 > U
       THEN Scale(Normalize(diff),
                  Div(maxAvoidForce * (combinedRadius - dist), combinedRadius))
       ELSE Zero

PredictiveAvoidance(a, b, lookAheadTime, maxAvoidForce) ==
    LET futureA == Add(a.pos, Scale(a.vel, lookAheadTime))
        futureB == Add(b.pos, Scale(b.vel, lookAheadTime))
        diff    == Sub(futureA, futureB)
        dist    == Length(diff)
        combinedRadius == 24 * U
    IN IF dist < combinedRadius /\ dist * 1000 > U
       THEN Scale(Normalize(diff), AvoidMagnitude(dist, maxAvoidForce))
       ELSE Zero

\* One pass of the loop body of Separation over agents[j]; self is the
\* index of the agent the list element is compared with by address.
SeparationCounts(self, j, d, separationRadius) ==
    j # self /\ d > 0 /\ d < separationRadius

RECURSIVE SeparationLoop(_, _, _, _, _)
SeparationLoop(self, agents, separationRadius, j, acc) ==
    IF j > Len(agents) THEN acc
    ELSE LET diff == Sub(agents[self].pos, agents[j].pos)
             d    == Length(diff)
         IN IF SeparationCounts(self, j, d, separationRadius)
            THEN SeparationLoop(self, agents, separationRadius, j + 1,
                     [steer |-> Add(acc.steer,
                                    ScaleQ(Normalize(diff), separationRadius - d,
                                           separationRadius)),
                      count |-> acc.count + 1])
            ELSE SeparationLoop(self, agents, separationRadius, j + 1, acc)

\* steer and count as they stand after the loop (line 124).
SeparationSum(self, agents, separationRadius) ==
    SeparationLoop(self, agents, separationRadius, 1, [steer |-> Zero, count |-> 0])

Separation(self, agents, separationRadius, strength) ==
    LET acc   == SeparationSum(self, agents, separationRadius)
        steer == IF acc.count > 0 THEN ScaleQ(acc.steer, 1, acc.count) ELSE acc.steer
    IN IF Length(steer) * 10000 < U THEN Zero
       ELSE Scale(Normalize(steer), strength)

\* The look-ahead point of ObstacleAvoidance (lines 132-134).
AheadPoint(agent, lookAhead) ==
    LET n       == Normalize(agent.vel)
        heading == IF Length(n) * 100 < U THEN Vec(0, -U) ELSE n
    IN Add(agent.pos, Scale(heading, lookAhead))

\* Scale(away, penetration * avoidStrength): the push out of a circle of
\* buffered radius r around c for a point p at distance dist < r;
\* num/den is the extra factor (1 for the ahead point, 0.8f for the agent).
PushAway(p, c, r, dist, avoidStrength, num, den) ==
    ScaleQ(Normalize(Sub(p, c)), (r - dist) * avoidStrength * num, U * U * den)

\* Variant: the agent's position is checked whether or not the look-ahead
\* point is inside (no else).
ObstacleTermBoth(agent, ahead, c, radius, avoidStrength) ==
    LET r       == radius + 8 * U
        dist    == Length(Sub(ahead, c))
        nowDist == Length(Sub(agent.pos, c))
    IN Add(IF dist < r THEN PushAway(ahead, c, r, dist, avoidStrength, 1, 1) ELSE Zero,
           IF nowDist < r THEN PushAway(agent.pos, c, r, nowDist, avoidStrength, 8, 10)
           ELSE Zero)

\* Variant: the push out of the look-ahead test is taken from the agent's
\* position instead of the look-ahead point.
ObstacleTermFromAgent(agent, ahead, c, radius, avoidStrength) ==
    LET r       == radius + 8 * U
        dist    == Length(Sub(ahead, c))
        nowDist == Length(Sub(agent.pos, c))
    IN IF dist < r THEN PushAway(agent.pos, c, r, dist, avoidStrength, 1, 1)
       ELSE IF nowDist < r THEN PushAway(agent.pos, c, r, nowDist, avoidStrength, 8, 10)
       ELSE Zero

\* The loop body of ObstacleAvoidance for one obstacle (lines 137-151).
ObstacleTerm(agent, ahead, c, radius, avoidStrength) ==
    LET r       == radius + 8 * U
        dist    == Length(Sub(ahead, c))
        nowDist == Length(Sub(agent.pos, c))
    IN IF dist < r THEN PushAway(ahead, c, r, dist, avoidStrength, 1, 1)
       ELSE IF nowDist < r THEN PushAway(agent.pos, c, r, nowDist, avoidStrength, 8, 10)
       ELSE Zero

RECURSIVE ObstacleLoop(_, _, _, _, _, _, _)
ObstacleLoop(agent, ahead, obsCenters, obsRadii, avoidStrength, i, steer) ==
    IF i > Len(obsCenters) THEN steer
    ELSE ObstacleLoop(agent, ahead, obsCenters, obsRadii, avoidStrength, i + 1,
             Add(steer, ObstacleTerm(agent, ahead, obsCenters[i], obsRadii[i],
                                     avoidStrength)))

ObstacleAvoidance(agent, obsCenters, obsRadii, lookAhead, avoidStrength) ==
    LET ahead == AheadPoint(agent, lookAhead)
        steer == ObstacleLoop(agent, ahead, obsCenters, obsRadii, avoidStrength, 1, Zero)
    IN IF Length(steer) * 1000 < U THEN Zero ELSE Limit(steer, avoidStrength)

\* strength * (1 - p/margin) for the near edge, its negative for the far one.
WallAxis(p, size, margin, strength) ==
    IF p < margin THEN Div(strength * (margin - p), margin)
    ELSE IF p > size - margin THEN -Div(strength * (margin - (size - p)), margin)
    ELSE 0

WallAvoidance(a, w, h, margin, strength) ==
    Vec(WallAxis(a.pos.x, w, margin, strength), WallAxis(a.pos.y, h, margin, strength))

\* path[i] for the C++ index i.  An index below 0 reads memory in front of
\* the vector's buffer: mem.at[i] is whatever lies there, mem.fault whether
\* the read faults instead.
ReadPath(path, i, mem) == IF i >= 0 THEN path[i + 1] ELSE mem.at[i]

\* Variant: the comparison with waypointRadius is the wrong way round.
PathFollowingFarAdvances(a, path, outIndex, waypointRadius, mem) ==
    IF Len(path) = 0
    THEN [index |-> outIndex, desired |-> Zero, oob |-> FALSE, fault |-> FALSE]
    ELSE LET i0     == IF outIndex >= Len(path) THEN 0 ELSE outIndex
             target == ReadPath(path, i0, mem)
             dist   == Length(Sub(target, a.pos))
             near   == dist > waypointRadius
             i1     == IF near THEN CRem(i0 + 1, Len(path)) ELSE i0
             goal   == IF near THEN ReadPath(path, i1, mem) ELSE target
         IN IF i0 < 0 /\ mem.fault
            THEN [index |-> i0, desired |-> Zero, oob |-> TRUE, fault |-> TRUE]
            ELSE [index   |-> i1,
                  desired |-> Arrive(a.pos, goal, a.maxSpeed, Div(waypointRadius * 25, 10)),
                  oob     |-> (i0 < 0),
                  fault   |-> FALSE]

\* Variant: the index keeps advancing while the agent is within reach of
\* the waypoint it points at (a while for the if, at most once around).
RECURSIVE SkipNear(_, _, _, _, _, _)
SkipNear(a, path, i, waypointRadius, mem, left) ==
    IF left > 0 /\ Length(Sub(ReadPath(path, i, mem), a.pos)) < waypointRadius
    THEN SkipNear(a, path, CRem(i + 1, Len(path)), waypointRadius, mem, left - 1)
    ELSE i

PathFollowingSkipping(a, path, outIndex, waypointRadius, mem) ==
    IF Len(path) = 0
    THEN [index |-> outIndex, desired |-> Zero, oob |-> FALSE, fault |-> FALSE]
    ELSE LET i0 == IF outIndex >= Len(path) THEN 0 ELSE outIndex
             i1 == SkipNear(a, path, i0, waypointRadius, mem, Len(path))
         IN IF i0 < 0 /\ mem.fault
            THEN [index |-> i0, desired |-> Zero, oob |-> TRUE, fault |-> TRUE]
            ELSE [index   |-> i1,
                  desired |-> Arrive(a.pos, ReadPath(path, i1, mem), a.maxSpeed,
                                     Div(waypointRadius * 25, 10)),
                  oob     |-> (i0 < 0),
                  fault   |-> FALSE]

\* PathFollowing: index is outIndex after the call, desired the returned
\* velocity, oob whether a read outside the path happened, fault whether
\* such a read ended the process (index and desired are then void).
PathFollowing(a, path, outIndex, waypointRadius, mem) ==
    IF Len(path) = 0
    THEN [index |-> outIndex, desired |-> Zero, oob |-> FALSE, fault |-> FALSE]
    ELSE LET i0     == IF outIndex >= Len(path) THEN 0 ELSE outIndex
             target == ReadPath(path, i0, mem)
             dist   == Length(Sub(target, a.pos))
             near   == dist < waypointRadius
             i1     == IF near THEN CRem(i0 + 1, Len(path)) ELSE i0
             goal   == IF near THEN ReadPath(path, i1, mem) ELSE target
         IN IF i0 < 0 /\ mem.fault
            THEN [index |-> i0, desired |-> Zero, oob |-> TRUE, fault |-> TRUE]
            ELSE [index   |-> i1,
                  desired |-> Arrive(a.pos, goal, a.maxSpeed, Div(waypointRadius * 25, 10)),
                  oob     |-> (i0 < 0),
                  fault   |-> FALSE]

\* ------------------------------------------------------------------------
\* Combining behaviours (main.cpp 179-191)
\* ------------------------------------------------------------------------
\* epsilon is given in thousandths (the default 0.001f is 1).
RECURSIVE PriorityLoop(_, _, _)
PriorityLoop(forces, epsilonMilli, i) ==
    IF i > Len(forces) THEN Zero
    ELSE IF Length(forces[i]) * 1000 > epsilonMilli * U THEN forces[i]
    ELSE PriorityLoop(forces, epsilonMilli, i + 1)

\* Variant: the strongest force wins instead of the first one that counts.
RECURSIVE StrongestLoop(_, _, _)
StrongestLoop(forces, i, best) ==
    IF i > Len(forces) THEN best
    ELSE StrongestLoop(forces, i + 1,
             IF Length(forces[i]) > Length(best) THEN forces[i] ELSE best)

PrioritySteeringStrongest(forces, epsilonMilli) ==
    LET best == StrongestLoop(forces, 1, Zero)
    IN IF Length(best) * 1000 > epsilonMilli * U THEN best ELSE Zero

PrioritySteering(forces, epsilonMilli) == PriorityLoop(forces, epsilonMilli, 1)

\* forces is a sequence of <<force, weight>>, weight on the grid.
RECURSIVE BlendTotal(_, _, _)
BlendTotal(forces, i, total) ==
    IF i > Len(forces) THEN total
    ELSE BlendTotal(forces, i + 1, Add(total, Scale(forces[i][1], forces[i][2])))

\* Variant: every force is clamped to maxForce before it is weighted.
RECURSIVE BlendTotalClamped(_, _, _, _)
BlendTotalClamped(forces, maxForce, i, total) ==
    IF i > Len(forces) THEN total
    ELSE BlendTotalClamped(forces, maxForce, i + 1,
             Add(total, Scale(Limit(forces[i][1], maxForce), forces[i][2])))

WeightedBlendClampEach(forces, maxForce) ==
    Limit(BlendTotalClamped(forces, maxForce, 1, Zero), maxForce)

WeightedBlend(forces, maxForce) == Limit(BlendTotal(forces, 1, Zero), maxForce)

\* ------------------------------------------------------------------------
\* Configuration of main() (main.cpp 233-294), on the grid
\* ------------------------------------------------------------------------
screenW == 1800
screenH == 1000

\* A float given in hundredths / tenths.
Hundredths(n) == Div(n * U, 100)
Tenths(n) == Div(n * U, 10)

Px(px, py) == Vec(px * U, py * U)

path == << Px(150, 120), Px(400, 90), Px(800, 150), Px(920, 300),
           Px(800, 520), Px(520, 620), Px(240, 500), Px(100, 350) >>
obsCenters == << Px(500, 320), Px(300, 380), Px(700, 460) >>
obsRadii == << 60 * U, 45 * U, 55 * U >>

separationRadius    == 48 * U
separationStrength  == Tenths(9)
predictiveLookAhead == Tenths(9)
predictiveStrength  == Tenths(9)
obstacleLookAhead   == 70 * U
obstacleStrength    == Tenths(12)
wallMargin          == 40 * U
wallStrength        == Tenths(16)
pathWaypointRadius  == 22 * U

\* Memory in front of a path buffer that is never read.
NoMem == [fault |-> FALSE, at |-> [i \in {} |-> Zero]]

\* ------------------------------------------------------------------------
\* One agent's pass of the multi-agent loop (main.cpp 372-435)
\* ------------------------------------------------------------------------
\* Lines 377-381: the index after the call and steerPath.
PathSite(enable, a, pth, waypointRadius, mem) ==
    IF enable
    THEN LET pf == PathFollowing(a, pth, a.pathIndex, waypointRadius, mem)
         IN [index |-> pf.index, desired |-> pf.desired,
             steerPath |-> Sub(pf.desired, a.vel), oob |-> pf.oob, fault |-> pf.fault]
    ELSE [index |-> a.pathIndex, desired |-> Zero, steerPath |-> Zero,
          oob |-> FALSE, fault |-> FALSE]

\* Lines 388-395.
RECURSIVE PredictLoop(_, _, _, _)
PredictLoop(i, ags, j, steerPredict) ==
    IF j > Len(ags) THEN steerPredict
    ELSE IF i = j THEN PredictLoop(i, ags, j + 1, steerPredict)
    ELSE PredictLoop(i, ags, j + 1,
             Add(steerPredict, PredictiveAvoidance(ags[i], ags[j], predictiveLookAhead,
                                                   predictiveStrength)))

\* Lines 407-410: the three tiers, highest priority first.
PriorityTiers(steerObs, steerWall, steerPredict, steerSep, steerPath, maxForce) ==
    << Limit(Add(Scale(steerObs, 2 * U), Scale(steerWall, Tenths(18))), maxForce),
       Limit(Add(Scale(steerPredict, Tenths(14)), Scale(steerSep, Tenths(12))), maxForce),
       Limit(Scale(steerPath, Tenths(9)), maxForce) >>

\* Lines 405-412.
PriorityCombine(steerObs, steerWall, steerPredict, steerSep, steerPath, maxForce) ==
    PrioritySteering(
        PriorityTiers(steerObs, steerWall, steerPredict, steerSep, steerPath, maxForce), 1)

\* Lines 415-421.
WeightedCombine(steerObs, steerWall, steerPredict, steerSep, steerPath, maxForce) ==
    WeightedBlend(<< <<steerObs, Tenths(18)>>, <<steerWall, Tenths(14)>>,
                     <<steerPredict, Tenths(12)>>, <<steerSep, U>>,
                     <<steerPath, Tenths(9)>> >>, maxForce)

\* Variant: the far side is treated like the single-agent clamp.
WrapAxisClamped(p, size) ==
    LET q == IF p < -60 * U THEN -60 * U ELSE p
    IN IF q > size + 60 * U THEN size + 60 * U ELSE q

\* Lines 431-434 for one coordinate.
WrapAxis(p, size) ==
    LET q == IF p < -60 * U THEN size + 60 * U ELSE p
    IN IF q > size + 60 * U THEN -60 * U ELSE q

WrapAround(pos) == Vec(WrapAxis(pos.x, screenW * U), WrapAxis(pos.y, screenH * U))

\* Variant: the steering is added to the velocity without the clamp.
AppliedForceUnclamped(steer, maxForce) == steer

\* Lines 357 and 425: the force that is added to the velocity.
AppliedForce(steer, maxForce) == Limit(steer, maxForce)

\* Lines 360-361 and 426-427.
Integrate(vel, steer, maxSpeed) == Limit(Add(vel, steer), maxSpeed)

\* fl holds the toggles as they stand after the frame's key handling.
\* The result is the agent as written back and what the pass computed.
StepAgent(i, ags, fl) ==
    The({
      The({
        The({ [agent |-> Agent(WrapAround(Add(a.pos, vel)), vel, a.maxSpeed, a.maxForce,
                               site.index),
               log   |-> [applied |-> applied, moved |-> Add(a.pos, vel),
                          tiers |-> PriorityTiers(steerObs, steerWall, steerPredict,
                                                  steerSep, site.steerPath, a.maxForce)]]
              : vel \in { Integrate(a.vel, applied, a.maxSpeed) } })
        : applied \in { AppliedForce(
              IF fl.prio
              THEN PriorityCombine(steerObs, steerWall, steerPredict, steerSep,
                                   site.steerPath, a.maxForce)
              ELSE WeightedCombine(steerObs, steerWall, steerPredict, steerSep,
                                   site.steerPath, a.maxForce),
              a.maxForce) } })
      : a            \in { ags[i] },
        site         \in { PathSite(fl.path, ags[i], path, pathWaypointRadius, NoMem) },
        steerSep     \in { IF fl.sep
                           THEN Separation(i, ags, separationRadius, separationStrength)
                           ELSE Zero },
        steerPredict \in { IF fl.pred THEN PredictLoop(i, ags, 1, Zero) ELSE Zero },
        steerObs     \in { IF fl.obs
                           THEN ObstacleAvoidance(ags[i], obsCenters, obsRadii,
                                                  obstacleLookAhead, obstacleStrength)
                           ELSE Zero },
        steerWall    \in { IF fl.wall
                           THEN WallAvoidance(ags[i], screenW * U, screenH * U, wallMargin,
                                              wallStrength)
                           ELSE Zero } })

\* Variant: every agent is computed from the list as it stood when the loop
\* began (snap), and the results are written back together.
RECURSIVE SnapshotLoop(_, _, _, _, _)
SnapshotLoop(i, snap, ags, fl, logs) ==
    IF i > Len(ags) THEN [agents |-> ags, logs |-> logs]
    ELSE The({ SnapshotLoop(i + 1, snap, nxt.ags, fl, nxt.logs)
               : nxt \in { The({ [ags  |-> [ags EXCEPT ![i] = r.agent],
                                   logs |-> Append(logs, r.log)]
                                  : r \in { StepAgent(i, snap, fl) } }) } })

MultiLoopSnapshot(i, ags, fl, logs) == SnapshotLoop(i, ags, ags, fl, logs)

\* The for loop of line 372: agent i is written back before agent i+1 is
\* computed.
RECURSIVE MultiLoop(_, _, _, _)
MultiLoop(i, ags, fl, logs) ==
    IF i > Len(ags) THEN [agents |-> ags, logs |-> logs]
    ELSE The({ MultiLoop(i + 1, nxt.ags, fl, nxt.logs)
               : nxt \in { The({ [ags  |-> [ags EXCEPT ![i] = r.agent],
                                   logs |-> Append(logs, r.log)]
                                  : r \in { StepAgent(i, ags, fl) } }) } })

\* ------------------------------------------------------------------------
\* The single-agent step (main.cpp 331-369)
\* ------------------------------------------------------------------------
\* Lines 335-353; angle is wanderAngle after this frame's increment.
SingleSteering(p, mode, combine, target, mouseVel, angle) ==
    IF combine
    THEN WeightedBlend(<< <<Wander(p.pos, p.vel, p.maxSpeed, angle), Tenths(6)>>,
                          <<Seek(p.pos, target, p.maxSpeed), U>> >>, p.maxForce * 2)
    ELSE CASE mode = 1 -> Seek(p.pos, target, p.maxSpeed)
           [] mode = 2 -> Flee(p.pos, target, p.maxSpeed)
           [] mode = 3 -> Pursue(p.pos, target, mouseVel, p.maxSpeed, Tenths(8))
           [] mode = 4 -> Evade(p.pos, target, mouseVel, p.maxSpeed, Tenths(8))
           [] mode = 5 -> Arrive(p.pos, target, p.maxSpeed, 140 * U)
           [] OTHER    -> Wander(p.pos, p.vel, p.maxSpeed, angle)

\* Lines 365-368 for one coordinate.
ClampAxis(p, size) ==
    LET q == IF p < 0 THEN 0 ELSE p
    IN IF q > size THEN size ELSE q

KeepInside(pos) == Vec(ClampAxis(pos.x, screenW * U), ClampAxis(pos.y, screenH * U))

StepPlayer(p, mode, combine, target, mouseVel, angle) ==
    The({
      The({ [agent |-> Agent(KeepInside(Add(p.pos, vel)), vel, p.maxSpeed, p.maxForce,
                             p.pathIndex),
             log   |-> [applied |-> steerVec, moved |-> Add(p.pos, vel), tiers |-> << >>]]
            : vel \in { Integrate(p.vel, steerVec, p.maxSpeed) } })
      : steerVec \in { The({ AppliedForce(Sub(steering, p.vel), p.maxForce)
                             : steering \in { SingleSteering(p, mode, combine, target,
                                                             mouseVel, angle) } }) } })

\* ------------------------------------------------------------------------
\* State of main()
\* ------------------------------------------------------------------------
VARIABLES
    singleAgentMode, singleMode, singleCombine, usePriority,
    enablePathFollowing, enableSeparation, enablePredictiveAvoid,
    enableObstacleAvoid, enableWallAvoid,
    player, wanderAngle, mousePrev, agents,
    frame,       \* iterations of the main loop so far
    last,        \* what the last iteration computed: mode and per-agent log
    call,        \* the function application under study: op, in, out
    fnPath,      \* the path handed to PathFollowing
    fnIndex      \* the caller-owned waypoint index handed to PathFollowing

simVars == << singleAgentMode, singleMode, singleCombine, usePriority,
              enablePathFollowing, enableSeparation, enablePredictiveAvoid,
              enableObstacleAvoid, enableWallAvoid,
              player, wanderAngle, mousePrev, agents, frame, last >>
fnVars == << call, fnPath, fnIndex >>
vars == << simVars, fnVars >>

\* Bounds of the exploration.
NumAgents == 2
MaxFrames == 150
MaxInputFrames == 1
MaxWanderAngle == 2

\* Agents as the construction loop of lines 261-271 can draw them: integer
\* pixel positions in [80, screen-80], velocities in tenths within [-5, 5],
\* maxSpeed 2.4 + 0..0.30, maxForce 0.14, any path index.
Spawn(px, py, vx, vy, extraSpeed, pi) ==
    Agent(Px(px, py), Vec(Tenths(vx), Tenths(vy)), Hundredths(240 + extraSpeed),
          Hundredths(14), pi)

SpawnTable == <<
    Spawn(80, 500, -50, 0, 30, 0),       \* heading out over the left edge
    Spawn(900, 80, 0, -50, 30, 3),       \* heading out over the top edge
    Spawn(1720, 500, 50, 0, 30, 4),      \* heading out over the right edge
    Spawn(900, 920, 0, 50, 30, 5),       \* heading out over the bottom edge
    Spawn(150, 130, 0, 0, 0, 0),         \* at rest within reach of waypoint 0
    Spawn(160, 130, 10, 0, 15, 7),       \* 10 px from the previous one
    Spawn(500, 400, 0, -20, 0, 2),       \* heading into obstacle 0
    Spawn(110, 350, -50, 50, 30, 7),     \* too fast, within reach of waypoint 7
    Spawn(600, 700, 0, 20, 0, 4),        \* moving down past the next one
    Spawn(612, 700, 0, 0, 0, 4) >>       \* at rest, 12 px to the right

\* Layout s puts SpawnTable[s+1], SpawnTable[s+2], ... at agents[0], [1], ...
Layouts == {0, 2, 4, 6, 8}
Layout(s) == [i \in 1..NumAgents |-> SpawnTable[((s + i - 1) % Len(SpawnTable)) + 1]]

\* Inputs of one frame: the keys that IsKeyPressed reports, the pointer
\* and the draw of GetRandomValue in Wander (in half-radians).
AllOff == {"TAB", "ONE", "TWO", "THREE", "FOUR", "FIVE"}
FirstKeyChoices == { {}, {"TAB"}, AllOff, {"TAB", "P"}, {"TWO"}, {"THREE"}, {"FOUR"},
                     {"FIVE"}, {"SIX"}, {"B"} }
LaterKeyChoices == { {}, {"TAB"} }
StartMouse == Px(700, 500)
MouseChoices == { StartMouse, Px(500, 600) }
RandChoices == {-1, 0, 1}

InitSim ==
    /\ singleAgentMode = TRUE
    /\ singleMode = 1
    /\ singleCombine = FALSE
    /\ usePriority = TRUE
    /\ enablePathFollowing = TRUE
    /\ enableSeparation = TRUE
    /\ enablePredictiveAvoid = TRUE
    /\ enableObstacleAvoid = TRUE
    /\ enableWallAvoid = TRUE
    /\ player = Agent(Px(500, 400), Vec(Hundredths(5), 0), 3 * U, Hundredths(12), 0)
    /\ wanderAngle = 0
    /\ mousePrev = StartMouse
    /\ \E s \in Layouts : agents = Layout(s)
    /\ frame = 0
    /\ last = [mode |-> "none", logs |-> << >>]

NoCall == [op |-> "none"]

Init ==
    /\ InitSim
    /\ call = NoCall
    /\ fnPath = << >>
    /\ fnIndex = 0

\* Lines 301-322: the toggles after the frame's key handling.
Pressed(keys, k, old) == IF k \in keys THEN ~old ELSE old

KeyMode(keys, old) ==
    IF "SIX" \in keys THEN 6
    ELSE IF "FIVE" \in keys THEN 5
    ELSE IF "FOUR" \in keys THEN 4
    ELSE IF "THREE" \in keys THEN 3
    ELSE IF "TWO" \in keys THEN 2
    ELSE IF "ONE" \in keys THEN 1
    ELSE old

HandleKeys(keys) ==
    LET sam == Pressed(keys, "TAB", singleAgentMode)
    IN [single  |-> sam,
        mode    |-> IF sam THEN KeyMode(keys, singleMode) ELSE singleMode,
        path    |-> IF sam THEN enablePathFollowing
                    ELSE Pressed(keys, "ONE", enablePathFollowing),
        sep     |-> IF sam THEN enableSeparation
                    ELSE Pressed(keys, "TWO", enableSeparation),
        pred    |-> IF sam THEN enablePredictiveAvoid
                    ELSE Pressed(keys, "THREE", enablePredictiveAvoid),
        obs     |-> IF sam THEN enableObstacleAvoid
                    ELSE Pressed(keys, "FOUR", enableObstacleAvoid),
        wall    |-> IF sam THEN enableWallAvoid
                    ELSE Pressed(keys, "FIVE", enableWallAvoid),
        prio    |-> Pressed(keys, "P", usePriority),
        combine |-> Pressed(keys, "B", singleCombine)]

SetToggles(fl) ==
    /\ singleAgentMode' = fl.single
    /\ singleMode' = fl.mode
    /\ singleCombine' = fl.combine
    /\ usePriority' = fl.prio
    /\ enablePathFollowing' = fl.path
    /\ enableSeparation' = fl.sep
    /\ enablePredictiveAvoid' = fl.pred
    /\ enableObstacleAvoid' = fl.obs
    /\ enableWallAvoid' = fl.wall

\* Input is explored during the first MaxInputFrames frames (any of
\* FirstKeyChoices in the first one); afterwards no key is pressed, the
\* pointer rests and the random draw is 0.
KeyInputs ==
    IF frame = 0 THEN FirstKeyChoices
    ELSE IF frame < MaxInputFrames THEN LaterKeyChoices
    ELSE {{}}
MouseInputs == IF frame < MaxInputFrames THEN MouseChoices ELSE {mousePrev}
RandInputs == IF frame < MaxInputFrames THEN RandChoices ELSE {0}

\* One iteration of the main loop that runs the single-agent branch.
FrameSingle ==
    /\ frame < MaxFrames
    /\ \E keys \in KeyInputs, mouse \in MouseInputs, rnd \in RandInputs :
        LET fl      == HandleKeys(keys)
            wanders == fl.combine \/ fl.mode = 6
            angle   == IF wanders THEN wanderAngle + rnd ELSE wanderAngle
        IN /\ fl.single
           /\ wanders \/ rnd = 0
           /\ Abs(angle) <= MaxWanderAngle
           /\ SetToggles(fl)
           /\ mousePrev' = mouse
           /\ wanderAngle' = angle
           /\ \E r \in { StepPlayer(player, fl.mode, fl.combine, mouse,
                                    Sub(mouse, mousePrev), angle) } :
                 /\ player' = r.agent
                 /\ last' = [mode |-> "single", logs |-> << r.log >>]
           /\ frame' = frame + 1
           /\ UNCHANGED << agents, fnVars >>

\* One iteration of the main loop that runs the multi-agent branch.
FrameMulti ==
    /\ frame < MaxFrames
    /\ \E keys \in KeyInputs, mouse \in MouseInputs :
        LET fl == HandleKeys(keys)
        IN /\ ~fl.single
           /\ SetToggles(fl)
           /\ mousePrev' = mouse
           /\ \E r \in { MultiLoop(1, agents, fl, << >>) } :
                 /\ agents' = r.agents
                 /\ last' = [mode |-> "multi", logs |-> r.logs]
           /\ frame' = frame + 1
           /\ UNCHANGED << player, wanderAngle, fnVars >>

Next == FrameSingle \/ FrameMulti

Spec == Init /\ [][Next]_vars

\* ------------------------------------------------------------------------
\* The steering functions applied to drawn inputs
\* ------------------------------------------------------------------------
\* All sequences over S of length 0..n.
RECURSIVE SeqsUpTo(_, _)
SeqsUpTo(S, n) ==
    IF n = 0 THEN { << >> }
    ELSE LET shorter == SeqsUpTo(S, n - 1)
         IN shorter \cup { Append(q, e) : q \in { t \in shorter : Len(t) = n - 1 }, e \in S }

MaxListLen == 3

Still(pos) == Agent(pos, Zero, 3 * U, Hundredths(14), 0)
Moving(pos, vel) == Agent(pos, vel, 3 * U, Hundredths(14), 0)

InitFn ==
    /\ InitSim
    /\ agents = Layout(0)
    /\ call = NoCall
    /\ fnPath = << >>
    /\ fnIndex = 0

\* Separation: two of the positions coincide, one is out of reach.
SepPositions == { Px(100, 100), Px(110, 100), Px(100, 130), Px(300, 300) }
SepLists == { q \in SeqsUpTo({ Still(p) : p \in SepPositions }, MaxListLen) : Len(q) >= 1 }

CallSeparation ==
    /\ call = NoCall
    /\ \E ags \in SepLists, self \in 1..MaxListLen, radius \in {separationRadius, 20 * U} :
        /\ self <= Len(ags)
        /\ call' = [op  |-> "Separation",
                    in  |-> [self |-> self, agents |-> ags, radius |-> radius,
                             strength |-> separationStrength],
                    out |-> [force |-> Separation(self, ags, radius, separationStrength),
                             count |-> SeparationSum(self, ags, radius).count]]
    /\ UNCHANGED << simVars, fnPath, fnIndex >>

\* ObstacleAvoidance: obstacle 0 of main() and a second one to its right.
ObsAgents ==
    { Moving(p, v) : p \in { Px(500, 400), Px(500, 370), Px(420, 320), Px(100, 100),
                             Px(530, 400), Px(500, 390) },
                     v \in { Zero, Vec(0, -2 * U), Vec(2 * U, 0) } }
ObsChoices == { [c |-> Px(500, 320), r |-> 60 * U], [c |-> Px(560, 400), r |-> 45 * U] }
ObsLists == SeqsUpTo(ObsChoices, MaxListLen - 1)
Centers(obs) == [i \in 1..Len(obs) |-> obs[i].c]
Radii(obs) == [i \in 1..Len(obs) |-> obs[i].r]

CallObstacleAvoidance ==
    /\ call = NoCall
    /\ \E a \in ObsAgents, obs \in ObsLists, lookAhead \in {obstacleLookAhead, 20 * U} :
        call' = [op  |-> "ObstacleAvoidance",
                 in  |-> [agent |-> a, obs |-> obs, lookAhead |-> lookAhead,
                          strength |-> obstacleStrength],
                 out |-> ObstacleAvoidance(a, Centers(obs), Radii(obs), lookAhead,
                                           obstacleStrength)]
    /\ UNCHANGED << simVars, fnPath, fnIndex >>

\* PredictiveAvoidance: pairs that meet, pass close, touch and stay apart.
PredAgents ==
    { Moving(p, v) : p \in { Px(100, 100), Px(110, 100), Px(124, 100), Px(100, 140) },
                     v \in { Zero, Vec(2 * U, 0), Vec(0, -3 * U) } }

CallPredictiveAvoidance ==
    /\ call = NoCall
    /\ \E a \in PredAgents, b \in PredAgents, t \in {0, predictiveLookAhead, 5 * U},
          f \in {predictiveStrength, 2 * U} :
        call' = [op  |-> "PredictiveAvoidance",
                 in  |-> [a |-> a, b |-> b, t |-> t, f |-> f],
                 out |-> PredictiveAvoidance(a, b, t, f)]
    /\ UNCHANGED << simVars, fnPath, fnIndex >>

\* PathFollowing: the caller builds a path and owns the index, then calls
\* again and again, each time from wherever the agent is.
PathChoices == { << >>,
                 << Px(0, 0), Px(100, 0) >>,
                 << Px(0, 0), Px(5, 0), Px(100, 0) >> }
IndexChoices == -2..4
PathAgents ==
    { Moving(p, v) : p \in { Px(99, 0), Px(2, 0), Px(50, 0), Px(100, 0), Px(0, 40) },
                     v \in { Zero, Vec(U, U) } }
GarbageVecs == { Px(95, 0), Px(-700, 300) }
MemChoices == { [fault |-> f, at |-> m] : f \in BOOLEAN, m \in [{-2, -1} -> GarbageVecs] }
CleanMem == [fault |-> FALSE, at |-> [i \in {-2, -1} |-> Px(95, 0)]]

ChoosePath ==
    /\ call = NoCall
    /\ \E p \in PathChoices, i \in IndexChoices :
        /\ fnPath' = p
        /\ fnIndex' = i
    /\ call' = [op |-> "ChoosePath"]
    /\ UNCHANGED simVars

CallPathFollowing ==
    /\ call.op \in {"ChoosePath", "PathFollowing"}
    /\ call.op = "PathFollowing" => ~call.out.fault
    /\ \E a \in PathAgents, enable \in BOOLEAN, mem \in MemChoices :
        LET me == [a EXCEPT !.pathIndex = fnIndex]
            r  == PathSite(enable, me, fnPath, 10 * U, mem)
        IN /\ r.oob \/ mem = CleanMem
           /\ call' = [op  |-> "PathFollowing",
                       in  |-> [agent |-> me, enable |-> enable, radius |-> 10 * U],
                       out |-> r]
           /\ fnIndex' = r.index
    /\ UNCHANGED << simVars, fnPath >>

\* PrioritySteering: forces below and above an epsilon of 0.05.
TinyForce == Vec(3, 0)
ForceChoices == { Zero, TinyForce, Vec(0, -2), Vec(10, 0), Vec(-6, 8), Vec(300, 400) }

CallPrioritySteering ==
    /\ call = NoCall
    /\ \E forces \in SeqsUpTo(ForceChoices, MaxListLen), epsilonMilli \in {1, 50} :
        call' = [op  |-> "PrioritySteering",
                 in  |-> [forces |-> forces, epsilonMilli |-> epsilonMilli],
                 out |-> PrioritySteering(forces, epsilonMilli)]
    /\ UNCHANGED << simVars, fnPath, fnIndex >>

\* The priority tiers of the multi-agent step on drawn component forces.
TierForces == { Zero, Vec(0, 120), Vec(-90, 20) }

CallPriorityCombine ==
    /\ call = NoCall
    /\ \E so \in TierForces, sw \in TierForces, sp \in TierForces, ss \in TierForces,
          st \in {Zero, Vec(300, 0), Vec(-5, 5)}, mf \in {Hundredths(14)} :
        call' = [op  |-> "PriorityCombine",
                 in  |-> [steerObs |-> so, steerWall |-> sw, steerPredict |-> sp,
                          steerSep |-> ss, steerPath |-> st, maxForce |-> mf],
                 out |-> [force |-> PriorityCombine(so, sw, sp, ss, st, mf),
                          tiers |-> PriorityTiers(so, sw, sp, ss, st, mf)]]
    /\ UNCHANGED << simVars, fnPath, fnIndex >>

\* WeightedBlend.
BlendForces == { Zero, Vec(5, 5), Vec(-120, 50), Vec(125, -50), Vec(0, -2000) }
BlendWeights == { Tenths(6), U, Tenths(18) }
BlendLists == SeqsUpTo({ <<f, w>> : f \in BlendForces, w \in BlendWeights }, MaxListLen)

CallWeightedBlend ==
    /\ call = NoCall
    /\ \E forces \in BlendLists, maxForce \in {1, Hundredths(14), 3 * U} :
        call' = [op  |-> "WeightedBlend",
                 in  |-> [forces |-> forces, maxForce |-> maxForce],
                 out |-> WeightedBlend(forces, maxForce)]
    /\ UNCHANGED << simVars, fnPath, fnIndex >>

NextFn ==
    \/ CallSeparation
    \/ CallObstacleAvoidance
    \/ CallPredictiveAvoidance
    \/ ChoosePath
    \/ CallPathFollowing
    \/ CallPrioritySteering
    \/ CallPriorityCombine
    \/ CallWeightedBlend

FnSpec == InitFn /\ [][NextFn]_vars

\* ------------------------------------------------------------------------
\* Properties of the simulation step
\* ------------------------------------------------------------------------
AgentIds == 1..NumAgents

\* C1: in the single-agent and in the multi-agent step, the force added to
\* an agent's velocity is no longer than the agent's maxForce, and the
\* velocity after the step is no longer than its maxSpeed, whatever the
\* velocity before the step, the combining strategy and the toggles.
C1_ForceAndSpeedLimited ==
    /\ last.mode = "single" =>
          /\ Length(last.logs[1].applied) <= player.maxForce
          /\ Length(player.vel) <= player.maxSpeed
    /\ last.mode = "multi" =>
          \A i \in AgentIds :
              /\ Length(last.logs[i].applied) <= agents[i].maxForce
              /\ Length(agents[i].vel) <= agents[i].maxSpeed

\* An agent spawned faster than its maxSpeed has gone through a multi-agent
\* step that added a nonzero force.
C1_Witness ==
    /\ last.mode = "multi"
    /\ frame = 1
    /\ \E s \in Layouts, i \in AgentIds :
          /\ Length(Layout(s)[i].vel) > Layout(s)[i].maxSpeed
          /\ agents[i].pos = Add(Layout(s)[i].pos, agents[i].vel)
          /\ last.logs[i].applied # Zero

InRange(p, lo, hi) == lo <= p /\ p <= hi

\* Where a coordinate that moved to m ends up under the wrap policy.
C8_Wrapped(m, p, size) ==
    /\ m < -60 * U => p = size + 60 * U
    /\ m > size + 60 * U => p = -60 * U
    /\ InRange(m, -60 * U, size + 60 * U) => p = m

\* C8: after every frame the player lies in [0,W]x[0,H]; every agent lies in
\* [-60,W+60]x[-60,H+60], and an agent whose step took a coordinate more than
\* 60 past an edge sits at the opposite edge's outward margin.
C8_BoundaryPolicy ==
    /\ InRange(player.pos.x, 0, screenW * U)
    /\ InRange(player.pos.y, 0, screenH * U)
    /\ \A i \in AgentIds :
          /\ InRange(agents[i].pos.x, -60 * U, (screenW + 60) * U)
          /\ InRange(agents[i].pos.y, -60 * U, (screenH + 60) * U)
    /\ last.mode = "multi" =>
          \A i \in AgentIds :
              /\ C8_Wrapped(last.logs[i].moved.x, agents[i].pos.x, screenW * U)
              /\ C8_Wrapped(last.logs[i].moved.y, agents[i].pos.y, screenH * U)

\* An agent has just been taken from beyond the left margin to the right one.
C8_Witness ==
    /\ last.mode = "multi"
    /\ \E i \in AgentIds :
          /\ last.logs[i].moved.x < -60 * U
          /\ agents[i].pos.x = (screenW + 60) * U

\* The player has just been held at an edge of the screen.
C8_ClampReached ==
    /\ last.mode = "single"
    /\ last.logs[1].moved # player.pos

\* ------------------------------------------------------------------------
\* Properties of the steering functions
\* ------------------------------------------------------------------------
Dot(a, b) == a.x * b.x + a.y * b.y

RECURSIVE SumUpTo(_, _)
SumUpTo(q, n) == IF n = 0 THEN Zero ELSE Add(SumUpTo(q, n - 1), q[n])

SumVec(q) == SumUpTo(q, Len(q))

\* C2 (as claimed): every agent of the list other than self that is closer
\* than the radius, one at distance 0 included, is counted as a contributing
\* neighbour.
C2_CoincidentPeerCounted ==
    call.op = "Separation" =>
        LET ags == call.in.agents
            me  == call.in.self
        IN call.out.count =
              Cardinality({ j \in 1..Len(ags) :
                              /\ j # me
                              /\ Length(Sub(ags[me].pos, ags[j].pos)) < call.in.radius })

\* The two containment tests of obstacle k and the push each one asks for.
C3_AheadDist(k) ==
    Length(Sub(AheadPoint(call.in.agent, call.in.lookAhead), call.in.obs[k].c))

C3_NowDist(k) == Length(Sub(call.in.agent.pos, call.in.obs[k].c))

C3_AheadInside(k) == C3_AheadDist(k) < call.in.obs[k].r + 8 * U

C3_NowInside(k) == C3_NowDist(k) < call.in.obs[k].r + 8 * U

C3_AheadPush(k) ==
    PushAway(AheadPoint(call.in.agent, call.in.lookAhead), call.in.obs[k].c,
             call.in.obs[k].r + 8 * U, C3_AheadDist(k), call.in.strength, 1, 1)

C3_NowPush(k) ==
    PushAway(call.in.agent.pos, call.in.obs[k].c, call.in.obs[k].r + 8 * U,
             C3_NowDist(k), call.in.strength, 8, 10)

C3_Clamped(steer) ==
    IF Length(steer) * 1000 < U THEN Zero ELSE Limit(steer, call.in.strength)

\* C3 (as claimed): the 0.8 push from the current position is added for
\* every obstacle that contains it, also when the look-ahead point is
\* inside the same obstacle; both pushes are then summed before the clamp.
C3_CurrentPositionIndependent ==
    call.op = "ObstacleAvoidance" =>
        call.out = C3_Clamped(SumVec(
            [k \in 1..Len(call.in.obs) |->
                Add(IF C3_AheadInside(k) THEN C3_AheadPush(k) ELSE Zero,
                    IF C3_NowInside(k) THEN C3_NowPush(k) ELSE Zero)]))

\* C3 (as amended): the 0.8 push from the current position is added for the
\* obstacles that contain it and not the look-ahead point; an obstacle that
\* contains the look-ahead point adds the look-ahead push alone.
C3_CurrentPositionIsFallback ==
    call.op = "ObstacleAvoidance" =>
        call.out = C3_Clamped(SumVec(
            [k \in 1..Len(call.in.obs) |->
                IF C3_AheadInside(k) THEN C3_AheadPush(k)
                ELSE IF C3_NowInside(k) THEN C3_NowPush(k)
                ELSE Zero]))

\* Look-ahead point and agent are inside the same obstacle, and the push
\* from the current position would have changed the result.
C3_Witness ==
    /\ call.op = "ObstacleAvoidance"
    /\ \E k \in 1..Len(call.in.obs) : C3_AheadInside(k) /\ C3_NowInside(k)
    /\ call.out # Zero
    /\ ~C3_CurrentPositionIndependent

C4_Diff ==
    Sub(Add(call.in.a.pos, Scale(call.in.a.vel, call.in.t)),
        Add(call.in.b.pos, Scale(call.in.b.vel, call.in.t)))

\* A push of F*(0.4 + 0.6*(24-d)/24) away from b's predicted position: the
\* direction of diff, the magnitude of the formula, which is at least 0.4*F;
\* the length of the result is that magnitude up to the rounding of the
\* grid (one percent of the direction, three steps of the length).
C4_Push(out, diff, d, f) ==
    LET mag == Div(f * (4 * 24 * U + 6 * (24 * U - d)), 10 * 24 * U)
    IN /\ out = Scale(Normalize(diff), mag)
       /\ mag >= Div(4 * f, 10)
       /\ 100 * (Length(out) + 3) >= 39 * f
       /\ Dot(out, diff) > 0

\* C4 (as claimed): a predicted separation below 24, zero included, gives
\* the push; a predicted separation of 24 or more gives the zero vector.
C4_PushWheneverCloser ==
    call.op = "PredictiveAvoidance" =>
        LET d == Length(C4_Diff)
        IN IF d < 24 * U THEN C4_Push(call.out, C4_Diff, d, call.in.f)
           ELSE call.out = Zero

\* C4 (as amended): a predicted separation d with 0.001 < d < 24 gives the
\* push; d >= 24 and d <= 0.001 (coinciding predicted positions) give the
\* zero vector.
C4_PushUnlessCoincident ==
    call.op = "PredictiveAvoidance" =>
        LET d == Length(C4_Diff)
        IN IF d < 24 * U /\ d * 1000 > U
           THEN C4_Push(call.out, C4_Diff, d, call.in.f)
           ELSE call.out = Zero

\* Two agents in different places move so that their predicted positions
\* are less than four units inside the combined radius, and the push is
\* weaker than the full force.
C4_Witness ==
    /\ call.op = "PredictiveAvoidance"
    /\ call.in.a.vel # call.in.b.vel
    /\ Length(C4_Diff) >= 20 * U
    /\ Length(C4_Diff) < 24 * U
    /\ call.out # Zero
    /\ Length(call.out) < call.in.f

ScenarioPath == << Px(0, 0), Px(100, 0) >>

C5_ScenarioCall ==
    /\ call.op = "PathFollowing"
    /\ call.in.enable
    /\ fnPath = ScenarioPath
    /\ call.in.radius = 10 * U

C5_WrapsAtLast ==
    (/\ call.in.agent.pathIndex = 1
     /\ Length(Sub(Px(100, 0), call.in.agent.pos)) < 10 * U)
    => /\ call.out.index = 0
       /\ call.out.desired = Arrive(call.in.agent.pos, Px(0, 0),
                                    call.in.agent.maxSpeed, 25 * U)

\* C5 (as claimed): on the scenario path with radius 10, the call for an
\* agent at (99,0) with index 0 advances the index to 1 and steers toward
\* (100,0); a call with index 1 within 10 of (100,0) wraps the index to 0 and
\* steers toward (0,0).
C5_AdvancesAt99 ==
    C5_ScenarioCall =>
        /\ (call.in.agent.pos = Px(99, 0) /\ call.in.agent.pathIndex = 0)
           => /\ call.out.index = 1
              /\ call.out.desired = Arrive(call.in.agent.pos, Px(100, 0),
                                           call.in.agent.maxSpeed, 25 * U)
        /\ C5_WrapsAtLast

\* C5 (as amended): the agent at (99,0) with index 0 is 99 away from waypoint
\* 0, so the call leaves the index at 0 and steers toward (0,0) at full
\* speed; a call with index 1 within 10 of (100,0) wraps the index to 0 and
\* steers toward (0,0).
C5_StaysAt99 ==
    C5_ScenarioCall =>
        /\ (call.in.agent.pos = Px(99, 0) /\ call.in.agent.pathIndex = 0)
           => /\ call.out.index = 0
              /\ call.out.desired = Vec(-call.in.agent.maxSpeed, 0)
        /\ C5_WrapsAtLast

\* The agent at (99,0) has been through a call that wrapped its index from
\* 1 to 0.
C5_Witness ==
    /\ C5_ScenarioCall
    /\ call.in.agent.pos = Px(99, 0)
    /\ call.in.agent.pathIndex = 1
    /\ fnIndex = 0

\* dist < radius, decided on the squares.
C6_Within(p, q, radius) ==
    LET d == Sub(p, q)
    IN /\ Abs(d.x) < radius
       /\ Abs(d.y) < radius
       /\ d.x * d.x + d.y * d.y < radius * radius

\* C6: a call with a non-empty path and an index i in range moves the index
\* to (i+1) mod len exactly when path following is enabled and the agent is
\* within the radius of waypoint i, and leaves it alone otherwise; the
\* desired velocity is Arrive toward the waypoint at the resulting index
\* with slowing radius 2.5 * radius.
C6_CyclicSingleAdvance ==
    [][ (/\ call'.op = "PathFollowing"
         /\ Len(fnPath) > 0
         /\ fnIndex \in 0..(Len(fnPath) - 1))
        => LET a    == call'.in.agent
               near == C6_Within(fnPath[fnIndex + 1], a.pos, call'.in.radius)
           IN /\ fnPath' = fnPath
              /\ a.pathIndex = fnIndex
              /\ fnIndex' = IF call'.in.enable /\ near
                            THEN (fnIndex + 1) % Len(fnPath)
                            ELSE fnIndex
              /\ call'.in.enable =>
                    call'.out.desired = Arrive(a.pos, fnPath[fnIndex' + 1], a.maxSpeed,
                                               Div(call'.in.radius * 25, 10)) ]_vars

\* The index advanced by one although the agent is also within the radius
\* of the waypoint it advanced to.
C6_Witness ==
    /\ call.op = "PathFollowing"
    /\ call.in.enable
    /\ Len(fnPath) = 3
    /\ call.in.agent.pathIndex = 0
    /\ fnIndex = 1
    /\ C6_Within(fnPath[1], call.in.agent.pos, call.in.radius)
    /\ C6_Within(fnPath[2], call.in.agent.pos, call.in.radius)

\* C7 (as claimed): for an empty path the call returns the zero vector and
\* leaves the index alone; for a non-empty path every index, too large or
\* negative, is wrapped before the path is read: nothing is read outside the
\* path and the index is in 0..len-1 after the call.
C7_IndexAlwaysWrapped ==
    (call.op = "PathFollowing" /\ call.in.enable) =>
        IF Len(fnPath) = 0
        THEN call.out.desired = Zero /\ call.out.index = call.in.agent.pathIndex
        ELSE /\ ~call.out.oob
             /\ call.out.index \in 0..(Len(fnPath) - 1)

C9_Counts(f, epsilonMilli) == Length(f) * 1000 > epsilonMilli * U

\* C9: PrioritySteering returns the first force of the list longer than
\* epsilon, whatever the later ones are, and the zero vector when there is
\* none; in the priority tiers of the multi-agent step the path tier
\* reaches the result only when the two tiers before it are negligible.
C9_FirstThatCounts ==
    /\ call.op = "PrioritySteering" =>
          LET fs  == call.in.forces
              big == { i \in 1..Len(fs) : C9_Counts(fs[i], call.in.epsilonMilli) }
          IN call.out = IF big = {} THEN Zero
                        ELSE fs[CHOOSE i \in big : \A j \in big : i <= j]
    /\ call.op = "PriorityCombine" =>
          LET t == call.out.tiers
              i == call.in
          IN /\ C9_Counts(t[1], 1) => call.out.force = t[1]
             /\ (~C9_Counts(t[1], 1) /\ C9_Counts(t[2], 1)) => call.out.force = t[2]
             /\ (C9_Counts(t[1], 1) \/ C9_Counts(t[2], 1)) =>
                    call.out.force = PriorityCombine(i.steerObs, i.steerWall, i.steerPredict,
                                                     i.steerSep, Zero, i.maxForce)
             /\ (~C9_Counts(t[1], 1) /\ ~C9_Counts(t[2], 1)) =>
                    call.out.force = IF C9_Counts(t[3], 1) THEN t[3] ELSE Zero

\* The first force that counts was returned although a negligible force
\* comes before it and a stronger one after it.
C9_Witness ==
    /\ call.op = "PrioritySteering"
    /\ Len(call.in.forces) = 3
    /\ ~C9_Counts(call.in.forces[1], call.in.epsilonMilli)
    /\ call.in.forces[1] # Zero
    /\ C9_Counts(call.in.forces[2], call.in.epsilonMilli)
    /\ Length(call.in.forces[3]) > Length(call.in.forces[2])
    /\ call.out = call.in.forces[2]

\* C10: WeightedBlend is the sum of force * weight clamped once to maxForce:
\* it equals the raw sum when that is no longer than maxForce, and is never
\* longer than maxForce.
C10_BlendThenClamp ==
    call.op = "WeightedBlend" =>
        LET fs  == call.in.forces
            raw == SumVec([k \in 1..Len(fs) |-> Scale(fs[k][1], fs[k][2])])
        IN /\ call.out = Limit(raw, call.in.maxForce)
           /\ Length(raw) <= call.in.maxForce => call.out = raw
           /\ Length(call.out) <= call.in.maxForce

\* A force longer than maxForce went into a sum that is not, and the sum
\* came back as it is.
C10_Witness ==
    /\ call.op = "WeightedBlend"
    /\ \E k \in 1..Len(call.in.forces) :
          Length(call.in.forces[k][1]) > call.in.maxForce
    /\ call.out # Zero
    /\ call.out = SumVec([k \in 1..Len(call.in.forces) |->
                             Scale(call.in.forces[k][1], call.in.forces[k][2])])

\* ------------------------------------------------------------------------
\* C11: two obstacles, look-ahead point inside one of them only
\* ------------------------------------------------------------------------
Cross(a, b) == a.x * b.y - a.y * b.x

\* The call was made with the two different obstacles A = obs[ka] and
\* B = obs[kb], and the look-ahead point is inside A's buffered radius and
\* not inside B's.
C11_AheadInAOnly(ka, kb) ==
    /\ call.op = "ObstacleAvoidance"
    /\ Len(call.in.obs) = 2
    /\ ka # kb
    /\ call.in.obs[ka] # call.in.obs[kb]
    /\ C3_AheadInside(ka)
    /\ ~C3_AheadInside(kb)

\* From A's centre to the look-ahead point.
C11_Away(ka) == Sub(AheadPoint(call.in.agent, call.in.lookAhead), call.in.obs[ka].c)

\* out is a nonzero force along away: the same side on both axes, and no
\* further off the line than the rounding of the grid explains (a step per
\* component, and a hundredth of the direction).
C11_AlongAway(out, away) ==
    /\ out # Zero
    /\ Dot(out, away) > 0
    /\ out.x * away.x >= 0
    /\ out.y * away.y >= 0
    /\ Abs(Cross(out, away)) * U <= 2 * Length(away) * (Length(out) + U)

\* The result is a nonzero push straight away from A's centre and is what
\* the call returns when B is left out of the list.
C11_PushFromAAlone(ka) ==
    /\ C11_AlongAway(call.out, C11_Away(ka))
    /\ call.out = ObstacleAvoidance(call.in.agent, << call.in.obs[ka].c >>,
                                    << call.in.obs[ka].r >>, call.in.lookAhead,
                                    call.in.strength)

\* C11 (as claimed): whenever the look-ahead point lies inside A's buffered
\* radius and not inside B's, the result is a nonzero force directed away
\* from A's centre and equal to the result without B, for every agent
\* position and velocity.
C11_AheadInAOnlyPushesFromA ==
    \A ka \in 1..2, kb \in 1..2 : C11_AheadInAOnly(ka, kb) => C11_PushFromAAlone(ka)

\* C11 (as amended): the same, for the agents whose current position is not
\* inside B's buffered radius and whose look-ahead point is not A's centre
\* and is at least 0.001/strength inside A's buffered radius.
C11_PushesFromAUnlessInsideB ==
    \A ka \in 1..2, kb \in 1..2 :
        ( /\ C11_AheadInAOnly(ka, kb)
          /\ ~C3_NowInside(kb)
          /\ C11_Away(ka) # Zero
          /\ (call.in.obs[ka].r + 8 * U - C3_AheadDist(ka)) * call.in.strength * 1000
                >= U * U )
        => C11_PushFromAAlone(ka)

\* A moving agent outside both obstacles whose look-ahead point is off the
\* centre of A, inside A only: the push from A came back.
C11_Witness ==
    \E ka \in 1..2, kb \in 1..2 :
        /\ C11_AheadInAOnly(ka, kb)
        /\ ~C3_NowInside(kb)
        /\ ~C3_NowInside(ka)
        /\ call.in.agent.vel # Zero
        /\ C11_Away(ka).x # 0
        /\ C11_Away(ka).y # 0
        /\ call.out # Zero

\* The agent stands inside B while its look-ahead point is inside A only.
C11_InsideB ==
    \E ka \in 1..2, kb \in 1..2 :
        /\ C11_AheadInAOnly(ka, kb)
        /\ C3_NowInside(kb)
        /\ call.out # ObstacleAvoidance(call.in.agent, << call.in.obs[ka].c >>,
                                        << call.in.obs[ka].r >>, call.in.lookAhead,
                                        call.in.strength)

\* The look-ahead point is A's centre: nothing is pushed.
C11_AtCentre ==
    \E ka \in 1..2, kb \in 1..2 :
        /\ C11_AheadInAOnly(ka, kb)
        /\ ~C3_NowInside(kb)
        /\ C11_Away(ka) = Zero
        /\ call.out = Zero

\* ------------------------------------------------------------------------
\* C12: the order of reads and writes within one multi-agent tick
\* ------------------------------------------------------------------------
\* The toggles the multi-agent loop reads.
C12_Flags ==
    [path |-> enablePathFollowing, sep |-> enableSeparation,
     pred |-> enablePredictiveAvoid, obs |-> enableObstacleAvoid,
     wall |-> enableWallAvoid, prio |-> usePriority]

\* The list agent j reads: the agents in front of it as the tick leaves
\* them (new), itself and the agents behind it as the tick found them (old).
C12_ReadBy(j, old, new) == [i \in 1..Len(old) |-> IF i < j THEN new[i] ELSE old[i]]

\* Every agent computed from the list as the tick found it.
C12_FromSnapshot(old, fl) == [j \in 1..Len(old) |-> StepAgent(j, old, fl).agent]

\* C12: in a multi-agent tick every agent j is computed (separation,
\* predictive avoidance and all) from a list in which each agent i < j
\* already has its position and velocity of this tick and each agent k > j
\* still has those of the tick before.
C12_SequentialUpdate ==
    [][ (frame' # frame /\ last'.mode = "multi") =>
          \A j \in AgentIds :
              \E r \in { StepAgent(j, C12_ReadBy(j, agents, agents'), C12_Flags') } :
                  /\ agents'[j] = r.agent
                  /\ last'.logs[j] = r.log ]_vars

\* The first tick ran the multi-agent loop from layout s, and what it left
\* is not what the forces of a snapshot of layout s give.
C12_Witness ==
    /\ frame = 1
    /\ last.mode = "multi"
    /\ \E s \in Layouts :
          /\ \A j \in AgentIds :
                agents[j] = StepAgent(j, C12_ReadBy(j, Layout(s), agents), C12_Flags).agent
          /\ agents # C12_FromSnapshot(Layout(s), C12_Flags)
          /\ \E j \in AgentIds : last.logs[j].tiers[2] # Zero

====
